---- MODULE Spec2Model ----
(***************************************************************************)
(* A model of compiletex.py: the CompilationUnit execution model (hooks,   *)
(* process spawn, timeout handling, exit-code policy) and its              *)
(* construction, the CompilationProcess pipeline, the plan assembled by    *)
(* Project, and main() reading the command line and the settings file.     *)
(*                                                                         *)
(* Text is modelled as a sequence of string tokens.  A file name is a      *)
(* sequence of one-character tokens (so that slicing is meaningful), a     *)
(* path is a sequence of names below the root.  Three tokens are special   *)
(* for str.format: "{}" (an automatic replacement field), "{k}" (a named   *)
(* replacement field) and "{" (an unmatched brace).                        *)
(***************************************************************************)
EXTENDS Integers, Sequences, FiniteSets, TLC

VARIABLES
    project,    \* the Project object (fields set by Project.__init__)
    fs,         \* the filesystem: a set of entries [path, kind, to]
    elements,   \* CompilationProcess.elements
    client,     \* the caller of the library: the callables it may add, and how many
    pc,         \* the driver's position
    idx,        \* the position of CompilationProcess.compile's for loop (1-based)
    process,    \* the Popen object of the running CompilationUnit and its child
    signals,    \* the calls process.terminate() / process.kill() made for this process
    output,     \* what the Logger wrote, one formatted line per entry
    raised,     \* the exception propagating out of the last call, "None" if none
    result,     \* the value returned by the last call
    invoked,    \* the positions of elements invoked by the running compile(), in order
    spawned,    \* the positions of the units the running compile() called Popen for
    phases,     \* the phases the running invocation of a unit has been through
    argv,       \* the command line given to main()
    rcfile,     \* the settings file "compiletexrc" of the current directory
    configs,    \* the option mapping Project is constructed from
    dicts       \* the return_codes mappings alive: the shared default and the callers'

vars == <<project, fs, elements, client, pc, idx, process, signals, output,
          raised, result, invoked, spawned, phases, argv, rcfile, configs, dicts>>

\* What no step of compile() assigns: the command line, the settings file, the
\* option mapping and the return_codes mappings.
outside == <<argv, rcfile, configs, dicts>>

----------------------------------------------------------------------------
(* Bounds of the model.                                                    *)

MaxNameLen == 4      \* longest main-document file name drawn letter by letter
MaxBibFiles == 2     \* most *.bib files in the document directory
MaxElements == 3     \* most add() calls a client makes on one CompilationProcess
MaxCode == 2         \* a child exits on its own with a status in 0..MaxCode
MaxCompiles == 2     \* most compile() calls a client makes on one CompilationProcess
MaxUnits == 2        \* most CompilationUnit constructions a client makes

----------------------------------------------------------------------------
(* Text, names and paths.                                                  *)

NameChars == {"p", ".", "x"}

SeqsUpTo(S, n) == UNION {[1..k -> S] : k \in 0..n}

PaperTex == <<"p", "a", "p", "e", "r", ".", "t", "e", "x">>
PaperLatex == <<"p", "a", "p", "e", "r", ".", "l", "a", "t", "e", "x">>

\* The main-document file names the model draws from.
FileNames == (SeqsUpTo(NameChars, MaxNameLen) \ {<<>>}) \cup {PaperTex, PaperLatex}

Letters == <<"a", "b", "c", "d", "e", "f">>
BibName(k) == <<Letters[k], ".", "b", "i", "b">>
BibNames == {BibName(k) : k \in 1..MaxBibFiles}

DocDir == <<<<"d", "o", "c">>>>
TexBuild == <<"t", "e", "x", "b", "u", "i", "l", "d">>

RECURSIVE Flatten(_)
Flatten(ss) == IF ss = <<>> THEN <<>> ELSE Head(ss) \o Flatten(Tail(ss))

RECURSIVE JoinWith(_, _)
JoinWith(sep, ss) ==
    IF ss = <<>> THEN <<>>
    ELSE IF Len(ss) = 1 THEN Head(ss)
    ELSE Head(ss) \o sep \o JoinWith(sep, Tail(ss))

\* The text of an absolute path: "/" before every name.
PathStr(path) == Flatten([k \in 1..Len(path) |-> <<"/">> \o path[k]])

IntStr(n) == IF n < 0 THEN <<"-", ToString(0 - n)>> ELSE <<ToString(n)>>

----------------------------------------------------------------------------
(* str.format and the loggers.                                             *)

\* fmt.format(*args) from position k of fmt, n arguments already consumed.
\* A "{}" field takes the next positional argument and raises IndexError when
\* there is none; a named field raises KeyError (no keyword is ever passed);
\* an unmatched brace raises ValueError.  The text of an argument is inserted
\* as it is: format does not look for fields in it.
RECURSIVE FormatExc(_, _, _, _)
FormatExc(fmt, args, k, n) ==
    IF k > Len(fmt) THEN "None"
    ELSE IF fmt[k] = "{}" THEN
             IF n >= Len(args) THEN "IndexError" ELSE FormatExc(fmt, args, k + 1, n + 1)
    ELSE IF fmt[k] = "{k}" THEN "KeyError"
    ELSE IF fmt[k] = "{" THEN "ValueError"
    ELSE FormatExc(fmt, args, k + 1, n)

\* The text fmt.format(*args) builds when it raises nothing.
RECURSIVE FormatText(_, _, _, _)
FormatText(fmt, args, k, n) ==
    IF k > Len(fmt) THEN <<>>
    ELSE IF fmt[k] = "{}" THEN args[n + 1] \o FormatText(fmt, args, k + 1, n + 1)
    ELSE <<fmt[k]>> \o FormatText(fmt, args, k + 1, n)

FormatFrom(fmt, args, k, n) ==
    LET exc == FormatExc(fmt, args, k, n) IN
    [exc |-> exc, text |-> IF exc = "None" THEN FormatText(fmt, args, k, n) ELSE <<>>]

Format(fmt, args) == FormatFrom(fmt, args, 1, 0)

\* Logger.__call__ / NullLogger.__call__: the exception the call raises.
LoggerRaises(logger, fmt, args) ==
    IF logger = "NullLogger" THEN "None"
    ELSE Format(fmt \o <<"\n">>, args).exc

\* Logger.__call__ / NullLogger.__call__: the output after the call.  Nothing is
\* written when formatting raises.
LoggerCall(logger, out, fmt, args) ==
    IF logger = "NullLogger" THEN out
    ELSE LET f == Format(fmt \o <<"\n">>, args) IN
         IF f.exc = "None" THEN Append(out, f.text) ELSE out

Loggers == {"Logger", "NullLogger"}

----------------------------------------------------------------------------
(* The filesystem boundary.                                                *)

Dir(p) == [path |-> p, kind |-> "dir", to |-> <<>>]
File(p) == [path |-> p, kind |-> "file", to |-> <<>>]
Link(p, q) == [path |-> p, kind |-> "link", to |-> q]

\* os.path.lexists
LExists(files, p) == \E e \in files : e.path = p

\* os.path.exists: a symbolic link is followed, a broken one does not exist.
Exists(files, p) ==
    \E e \in files : /\ e.path = p
                     /\ e.kind = "link" => LExists(files, e.to)

\* os.path.dirname, os.path.basename, os.path.join of absolute paths
DirName(p) == SubSeq(p, 1, Len(p) - 1)
BaseName(p) == p[Len(p)]
Join(dir, name) == Append(dir, name)

\* os.path.abspath of a relative path (a sequence of names, "." being the
\* current directory), the current directory being the document directory.
AbsPath(rel) == DocDir \o SelectSeq(rel, LAMBDA n : n # <<".">>)

----------------------------------------------------------------------------
(* CompilationUnit, construction.                                          *)

OkWarn == {"ok", "warn"}

\* The default value of the return_codes parameter.
DefaultReturnCodes == [k \in OkWarn |-> IF k = "ok" THEN {0} ELSE {}]

\* CompilationUnit.__init__.  return_codes is a mapping from some of the keys
\* "ok", "warn" to the codes listed under the key; a missing key is filled
\* with the empty list.  precall and postcall name the hook, "nullfn" when
\* none is given.
CompilationUnit(command, filename, args, cwd, precall, postcall, logger, return_codes) ==
    [kind |-> "CompilationUnit",
     command |-> <<command>> \o args \o <<filename>>,
     timeout |-> 5,
     cwd |-> cwd,
     precall |-> precall,
     postcall |-> postcall,
     return_codes |-> [k \in OkWarn |->
                          IF k \in DOMAIN return_codes THEN return_codes[k] ELSE {}],
     log |-> logger]

\* A plain zero-argument function used as a pipeline element.
Function(name) == [kind |-> "function", name |-> name]

\* A value that is not callable (a string, say).
NotCallable == [kind |-> "str"]

\* callable(element)
Callable(element) == element.kind \in {"CompilationUnit", "function"}

----------------------------------------------------------------------------
(* PdfLatexCompiler and Project.                                           *)

\* PdfLatexCompiler.command
PdfLatexCommand == <<"pdflatex">>

\* PdfLatexCompiler._alternate_builddir_options
alternate_builddir_options(builddir) ==
    << <<"-aux-directory=">> \o PathStr(builddir),
       <<"-output-directory=">> \o PathStr(builddir) >>

\* PdfLatexCompiler.arguments.  An option mapping is a record whose field
\* keys is the set of keys present in it.
arguments(options) ==
    IF "builddir" \in options.keys
    THEN alternate_builddir_options(AbsPath(options.builddir))
    ELSE <<>>

\* Project.__init__
ProjectInit(texoptions) ==
    LET filepath == AbsPath(texoptions.maintex) IN
    [latex |-> texoptions.latex,
     bibtex |-> texoptions.bibtex,
     filepath |-> filepath,
     builddir |-> IF "builddir" \in texoptions.keys
                  THEN AbsPath(texoptions.builddir)
                  ELSE DirName(filepath),
     texargs |-> arguments(texoptions),
     log |-> texoptions.logger]

\* Project.path
path(p) == DirName(p.filepath)

\* Project.main_texfile
main_texfile(p) == BaseName(p.filepath)

\* Project.bibfiles: the *.bib files of the document directory (glob gives them
\* in no particular order: see the orders drawn in create_bibfile_symlinks).
bibfiles(p, files) ==
    {e.path : e \in {f \in files : /\ Len(f.path) = Len(path(p)) + 1
                                   /\ DirName(f.path) = path(p)
                                   /\ BaseName(f.path) \in BibNames}}

\* has_bibtex taking the document itself for a bibliography file.
has_bibtex_any_file(p, files) == \E e \in files : e.path = p.filepath

\* Project.has_bibtex
has_bibtex(p, files) == bibfiles(p, files) # {}

\* name[:-3] + 'aux'
StripThenAux(name) == SubSeq(name, 1, Len(name) - 3) \o <<"a", "u", "x">>

\* Project.reference_auxiliary_filename
reference_auxiliary_filename(p) == StripThenAux(main_texfile(p))

\* Project.main_file_compilation
main_file_compilation(p) ==
    CompilationUnit(PdfLatexCommand, PathStr(p.filepath), p.texargs, path(p),
                    "main_file_log", "nullfn", p.log, DefaultReturnCodes)

\* The policy Project.reference_compilation_units gives the bibliography run.
ReferenceReturnCodes == [k \in OkWarn |-> IF k = "ok" THEN {0} ELSE {2}]

\* reference_compilation_units giving the bibliography unit first.
reference_compilation_units_bib_first(p) ==
    << CompilationUnit(p.bibtex, reference_auxiliary_filename(p), <<>>, p.builddir,
                       "reference_log", "nullfn", p.log, ReferenceReturnCodes),
       Function("create_bibfile_symlinks") >>

\* Project.reference_compilation_units: the pair (symlink step, bibliography unit)
reference_compilation_units(p) ==
    << Function("create_bibfile_symlinks"),
       CompilationUnit(p.bibtex, reference_auxiliary_filename(p), <<>>, p.builddir,
                       "reference_log", "nullfn", p.log, ReferenceReturnCodes) >>

----------------------------------------------------------------------------
(* CompilationProcess and the plan.                                        *)

\* add() putting the element first instead of last.
add_prepend(elems, element) ==
    IF ~Callable(element)
    THEN [elements |-> elems, raised |-> "TypeError"]
    ELSE [elements |-> <<element>> \o elems, raised |-> "None"]

\* add() without the callable() test.
add_unchecked(elems, element) ==
    [elements |-> Append(elems, element), raised |-> "None"]

\* CompilationProcess.add: the element list after the call and the exception
\* the call raises.
add(elems, element) ==
    IF ~Callable(element)
    THEN [elements |-> elems, raised |-> "TypeError"]
    ELSE [elements |-> Append(elems, element), raised |-> "None"]

RECURSIVE AddAll(_, _)
AddAll(elems, units) ==
    IF units = <<>> THEN elems
    ELSE AddAll(add(elems, Head(units)).elements, Tail(units))

\* The truth value of a path held as a string: the empty string is false.
Truthy(dir) == PathStr(dir) # <<>>

\* _generate_compilation with one compilation only after the bibliography run.
generate_compilation_one_pass(p, files) ==
    LET first == IF Truthy(p.builddir)
                 THEN add(<<>>, Function("create_build_dir")).elements
                 ELSE <<>>
        main == add(first, main_file_compilation(p)).elements
    IN  IF has_bibtex(p, files)
        THEN AddAll(AddAll(main, reference_compilation_units(p)),
                    <<main_file_compilation(p)>>)
        ELSE main

\* Project._generate_compilation: the elements of the CompilationProcess built.
generate_compilation(p, files) ==
    LET first == IF Truthy(p.builddir)
                 THEN add(<<>>, Function("create_build_dir")).elements
                 ELSE <<>>
        main == add(first, main_file_compilation(p)).elements
    IN  IF has_bibtex(p, files)
        THEN AddAll(AddAll(main, reference_compilation_units(p)),
                    <<main_file_compilation(p), main_file_compilation(p)>>)
        ELSE main

----------------------------------------------------------------------------
(* The child process.                                                      *)

NoProcess == [state |-> "none", status |-> 0, out |-> <<>>, err |-> <<>>,
              sigterm |-> FALSE]

\* What a child may have written to stdout and stderr when it exits.
Outputs == { [out |-> <<"text", "\n">>, err |-> <<>>],
             [out |-> <<"title = ", "{k}", "\n">>, err |-> <<"warning">>] }

Alive(proc) == proc.state = "running"

\* Popen.send_signal: nothing is sent to a child known to have exited.
\* SIGTERM is left pending for the child to act on (or to ignore), SIGKILL
\* ends it.
SendSignal(proc, sig) ==
    IF ~Alive(proc) THEN proc
    ELSE IF sig = "SIGKILL" THEN [proc EXCEPT !.state = "exited", !.status = -9]
    ELSE [proc EXCEPT !.sigterm = TRUE]

\* Popen.poll() used as a condition: None (still running) and 0 are false.
PollTruthy(proc) == ~Alive(proc) /\ proc.status # 0

----------------------------------------------------------------------------
(* Initial states.                                                         *)

\* The option mappings given to Project: the main document is paper.tex in
\* the current directory; the build directory is texbuild, or ".", or not
\* configured at all.
TexOptions ==
    {[latex |-> "PdfLatexCompiler", bibtex |-> <<"bibtex">>,
      maintex |-> <<PaperTex>>, logger |-> l, keys |-> ks, builddir |-> b] :
        l \in Loggers,
        ks \in {{"latex", "bibtex", "maintex", "logger", "builddir"},
                {"latex", "bibtex", "maintex", "logger"}},
        b \in {<<TexBuild>>, <<<<".">>>>}}

UsedOptions == {o \in TexOptions : "builddir" \notin o.keys => o.builddir = <<<<".">>>>}

\* What may be found at the place of a link before the build: nothing, a
\* regular file, or the link an earlier build made.
TargetStates == {"absent", "file", "link"}

TargetEntry(target, st) ==
    IF st = "file" THEN {File(target)}
    ELSE IF st = "link" THEN {Link(target, Join(DocDir, BaseName(target)))}
    ELSE {}

\* What may already be in the build directory, given the *.bib files bibs.
BuildDirStates(p, bibs) ==
    IF p.builddir = DocDir THEN {{}}
    ELSE {{}} \cup
         {{Dir(p.builddir)} \cup
          UNION {TargetEntry(Join(p.builddir, b), st[b]) : b \in bibs} :
              st \in [bibs -> TargetStates]}

\* The filesystems a build of project p may start from.
Filesystems(p) ==
    UNION {{{Dir(DocDir), File(p.filepath)}
                \cup {File(Join(DocDir, b)) : b \in bibs} \cup extra :
            extra \in BuildDirStates(p, bibs)} : bibs \in SUBSET BibNames}

\* No client: the library is driven by Project alone.  A client has a pool of
\* values to pass to add(), a number of add() calls left, a number of compile()
\* calls left, and remembers what it passed and what its earlier compile()
\* calls invoked.
NoClient == [pool |-> "none", left |-> 0, calls |-> 0, passed |-> <<>>, earlier |-> <<>>]

\* No settings file in the current directory.
NoFile == [exists |-> FALSE, lines |-> <<>>]

\* The return_codes mappings alive once the module is loaded: the default value
\* of the return_codes parameter, evaluated once.
LoadedDicts == [r \in {"default"} |-> DefaultReturnCodes]

InitCommon ==
    /\ spawned = <<>>
    /\ phases = <<>>
    /\ argv = <<>>
    /\ rcfile = NoFile
    /\ dicts = LoadedDicts
    /\ elements = <<>>
    /\ idx = 1
    /\ process = NoProcess
    /\ signals = <<>>
    /\ output = <<>>
    /\ raised = "None"
    /\ result = <<>>
    /\ invoked = <<>>

\* A Project has been constructed from an option mapping; compile() is about
\* to be called on it.
Init ==
    /\ \E o \in UsedOptions : configs = o /\ project = ProjectInit(o)
    /\ fs \in Filesystems(project)
    /\ client = NoClient
    /\ pc = "start"
    /\ InitCommon

----------------------------------------------------------------------------
(* The plain steps of the plan.                                            *)

\* os.mkdir
Mkdir(files, dir) ==
    IF LExists(files, dir) THEN [fs |-> files, raised |-> "FileExistsError"]
    ELSE IF ~Exists(files, DirName(dir)) THEN [fs |-> files, raised |-> "FileNotFoundError"]
    ELSE [fs |-> files \cup {Dir(dir)}, raised |-> "None"]

\* os.symlink
Symlink(files, src, dst) ==
    IF LExists(files, dst) THEN [fs |-> files, raised |-> "FileExistsError"]
    ELSE IF ~Exists(files, DirName(dst)) THEN [fs |-> files, raised |-> "FileNotFoundError"]
    ELSE [fs |-> files \cup {Link(dst, src)}, raised |-> "None"]

\* create_build_dir without the existence test.
create_build_dir_unchecked(p, files, out) ==
    LET made == Mkdir(files, p.builddir) IN
    [fs |-> made.fs,
     output |-> LoggerCall(p.log, out, <<"creating build directory '", "{}", "'">>,
                           <<PathStr(p.builddir)>>),
     raised |-> made.raised]

\* create_build_dir, the closure of Project._generate_compilation
create_build_dir(p, files, out) ==
    IF ~Exists(files, p.builddir)
    THEN LET made == Mkdir(files, p.builddir) IN
         [fs |-> made.fs,
          output |-> LoggerCall(p.log, out,
                                <<"creating build directory '", "{}", "'">>,
                                <<PathStr(p.builddir)>>),
          raised |-> made.raised]
    ELSE [fs |-> files, output |-> out, raised |-> "None"]

\* The loop of create_bibfile_symlinks putting a link over whatever is at the
\* target instead of testing for it.
RECURSIVE SymlinkEachOverwrite(_, _, _, _)
SymlinkEachOverwrite(p, files, out, order) ==
    IF order = <<>> THEN [fs |-> files, output |-> out, raised |-> "None"]
    ELSE LET bibfile == Head(order)
             target == Join(p.builddir, BaseName(bibfile))
         IN  SymlinkEachOverwrite(
                 p, {e \in files : e.path # target} \cup {Link(target, bibfile)},
                 LoggerCall(p.log, out,
                            <<"creating symlink from '", "{}", "' to '", "{}", "'">>,
                            <<PathStr(bibfile), PathStr(target)>>),
                 Tail(order))

\* The body of the for loop of create_bibfile_symlinks, over the files in order.
RECURSIVE SymlinkEach(_, _, _, _)
SymlinkEach(p, files, out, order) ==
    IF order = <<>> THEN [fs |-> files, output |-> out, raised |-> "None"]
    ELSE LET bibfile == Head(order)
             target == Join(p.builddir, BaseName(bibfile))
         IN  IF Exists(files, target) THEN SymlinkEach(p, files, out, Tail(order))
             ELSE LET logged == LoggerCall(p.log, out,
                                    <<"creating symlink from '", "{}", "' to '", "{}", "'">>,
                                    <<PathStr(bibfile), PathStr(target)>>)
                      linked == Symlink(files, bibfile, target)
                  IN  IF linked.raised # "None"
                      THEN [fs |-> files, output |-> logged, raised |-> linked.raised]
                      ELSE SymlinkEach(p, linked.fs, logged, Tail(order))

\* create_bibfile_symlinks, the closure of Project.reference_compilation_units,
\* glob having listed the *.bib files in the given order.
create_bibfile_symlinks(p, files, out, order) ==
    IF Truthy(p.builddir) /\ p.builddir # path(p)
    THEN SymlinkEach(p, files, out, order)
    ELSE [fs |-> files, output |-> out, raised |-> "None"]

\* The orders in which a set may be listed.
Orderings(S) ==
    {f \in [1..Cardinality(S) -> S] : \A a, b \in 1..Cardinality(S) : f[a] = f[b] => a = b}

----------------------------------------------------------------------------
(* CompilationUnit, execution.                                             *)

\* str(b) of a bytes value: b'...', a newline shown as backslash-n.
BytesStr(b) ==
    <<"b'">> \o [k \in 1..Len(b) |-> IF b[k] = "\n" THEN "\\n" ELSE b[k]] \o <<"'">>

\* text.replace(r'\n', '\n')
ReplaceEscapedNewline(text) ==
    [k \in 1..Len(text) |-> IF text[k] = "\\n" THEN "\n" ELSE text[k]]

\* The message built by CompilationUnit._deal_return_code.
Message(unit, proc) ==
    Format(<<"Process '", "{}", "' exited with status '", "{}", "', stdout:'", "{}",
             "', stderr: '", "{}", "'">>,
           <<JoinWith(<<" ">>, unit.command), IntStr(proc.status),
             ReplaceEscapedNewline(BytesStr(proc.out)),
             ReplaceEscapedNewline(BytesStr(proc.err))>>).text

\* The first test of _deal_return_code: the code is in neither list.
IsFailure(unit, status) ==
    status \notin unit.return_codes["ok"] /\ status \notin unit.return_codes["warn"]

\* The second test of _deal_return_code.
IsWarning(unit, status) == status \in unit.return_codes["warn"]

\* The hooks the Project gives its units.
Hook(name, p, out) ==
    IF name = "main_file_log"
    THEN LoggerCall(p.log, out, <<"compiling tex file '", "{}", "'">>,
                    <<PathStr(p.filepath)>>)
    ELSE IF name = "reference_log"
    THEN LoggerCall(p.log, out, <<"compiling auxiliary reference file '", "{}", "'">>,
                    <<PathStr(Join(p.builddir, reference_auxiliary_filename(p)))>>)
    ELSE out

----------------------------------------------------------------------------
(* The clients of CompilationProcess.                                      *)

\* The Project the client holds.
ClientOptions ==
    [latex |-> "PdfLatexCompiler", bibtex |-> <<"bibtex">>, maintex |-> <<PaperTex>>,
     logger |-> "Logger",
     keys |-> {"latex", "bibtex", "maintex", "logger", "builddir"},
     builddir |-> <<TexBuild>>]

\* What the client may pass to add(): the steps of a plan, and a value that
\* is not callable.
PipelinePool(p) ==
    {Function("create_build_dir"), main_file_compilation(p),
     reference_compilation_units(p)[2], NotCallable}

\* Every return_codes mapping over the codes 0..MaxCode, with or without
\* the keys "ok" and "warn".
ReturnCodeMappings ==
    UNION {[ks -> SUBSET (0..MaxCode)] : ks \in SUBSET OkWarn}

\* The units a client may construct: any policy, either logger, no hooks.
UnitPool ==
    {CompilationUnit(<<"cmd">>, <<"f">>, <<>>, DocDir, "nullfn", "nullfn", l, rc) :
        l \in Loggers, rc \in ReturnCodeMappings}

\* The values a client of the given kind may pass to add().
Pool(kind, p) ==
    IF kind = "steps" THEN PipelinePool(p)
    ELSE IF kind = "units" THEN UnitPool
    ELSE {}

----------------------------------------------------------------------------
(* Actions.                                                                *)

AtElement == pc = "compile" /\ idx <= Len(elements)

\* What a plain step leaves behind: the loop goes on, or the exception leaves
\* compile().
AfterFunction(r) ==
    /\ fs' = r.fs
    /\ output' = r.output
    /\ raised' = r.raised
    /\ invoked' = Append(invoked, idx)
    /\ IF r.raised = "None"
       THEN pc' = "compile" /\ idx' = idx + 1
       ELSE pc' = "failed" /\ idx' = idx
    /\ UNCHANGED <<outside, spawned, phases, project, elements, client, process,
                   signals, result>>

\* Project.compile: the plan is generated and CompilationProcess.compile begins.
ProjectCompile ==
    /\ pc = "start"
    /\ client = NoClient
    /\ elements' = generate_compilation(project, fs)
    /\ pc' = "compile"
    /\ idx' = 1
    /\ UNCHANGED <<outside, spawned, phases, project, fs, client, process, signals,
                   output, raised, result, invoked>>

\* A client calls add(element) on its CompilationProcess; it goes on after a
\* TypeError.
ClientAdd ==
    /\ pc = "start"
    /\ client.left > 0
    /\ \E element \in Pool(client.pool, project) :
          LET r == add(elements, element) IN
          /\ elements' = r.elements
          /\ raised' = r.raised
          /\ client' = [client EXCEPT !.left = @ - 1, !.passed = Append(@, element)]
    /\ UNCHANGED <<outside, spawned, phases, project, fs, pc, idx, process,
                   signals, output, result, invoked>>

\* compile() going on from the position the earlier call stopped at.
ClientCompileResuming ==
    /\ pc \in {"start", "done", "failed"}
    /\ client.pool # "none"
    /\ client.calls > 0
    /\ client' = [client EXCEPT !.calls = @ - 1,
                                !.earlier = IF pc = "start" THEN @ ELSE Append(@, invoked)]
    /\ pc' = "compile"
    /\ idx' = idx
    /\ raised' = "None"
    /\ invoked' = <<>>
    /\ spawned' = <<>>
    /\ UNCHANGED <<outside, phases, project, fs, elements, process, signals,
                   output, result>>

\* A client calls compile() on its CompilationProcess: for the first time, or
\* again once an earlier call has returned or raised.  The for loop starts at
\* the first element.
ClientCompile ==
    /\ pc \in {"start", "done", "failed"}
    /\ client.pool # "none"
    /\ client.calls > 0
    /\ client' = [client EXCEPT !.calls = @ - 1,
                                !.earlier = IF pc = "start" THEN @ ELSE Append(@, invoked)]
    /\ pc' = "compile"
    /\ idx' = 1
    /\ raised' = "None"
    /\ invoked' = <<>>
    /\ spawned' = <<>>
    /\ UNCHANGED <<outside, phases, project, fs, elements, process, signals,
                   output, result>>

\* compile() invokes the element create_build_dir.
InvokeCreateBuildDir ==
    /\ AtElement
    /\ elements[idx] = Function("create_build_dir")
    /\ AfterFunction(create_build_dir(project, fs, output))

\* compile() invokes the element create_bibfile_symlinks.
InvokeCreateSymlinks ==
    /\ AtElement
    /\ elements[idx] = Function("create_bibfile_symlinks")
    /\ \E order \in Orderings(bibfiles(project, fs)) :
          AfterFunction(create_bibfile_symlinks(project, fs, output, order))

\* compile() invokes a CompilationUnit: __call__ runs the pre-hook.
UnitPrecall ==
    /\ AtElement
    /\ elements[idx].kind = "CompilationUnit"
    /\ invoked' = Append(invoked, idx)
    /\ output' = Hook(elements[idx].precall, project, output)
    /\ result' = <<>>
    /\ pc' = "spawn"
    /\ phases' = <<"precall">>
    /\ UNCHANGED <<outside, spawned, project, fs, elements, client, idx, process,
                   signals, raised>>

\* _run_process: Popen
Spawn ==
    /\ pc = "spawn"
    /\ process' = [NoProcess EXCEPT !.state = "running"]
    /\ signals' = <<>>
    /\ spawned' = Append(spawned, idx)
    /\ pc' = "wait"
    /\ phases' = Append(phases, "spawn")
    /\ UNCHANGED <<outside, project, fs, elements, client, idx, output, raised,
                   result, invoked>>

\* The child exits on its own (also from a SIGTERM handler).
ProcessExits ==
    /\ Alive(process)
    /\ \E c \in 0..MaxCode, o \in Outputs :
          process' = [process EXCEPT !.state = "exited", !.status = c,
                                     !.out = o.out, !.err = o.err]
    /\ UNCHANGED <<outside, spawned, phases, project, fs, elements, client, pc,
                   idx, signals, output, raised,
                   result, invoked>>

\* The child dies of the SIGTERM it was sent.
ProcessTerminated ==
    /\ Alive(process)
    /\ process.sigterm
    /\ \E o \in Outputs :
          process' = [process EXCEPT !.state = "exited", !.status = -15,
                                     !.out = o.out, !.err = o.err]
    /\ UNCHANGED <<outside, spawned, phases, project, fs, elements, client, pc,
                   idx, signals, output, raised,
                   result, invoked>>

\* _run_process: communicate(timeout) returns, the child having exited in time.
CommunicateInTime ==
    /\ pc = "wait"
    /\ ~Alive(process)
    /\ pc' = "classify"
    /\ phases' = Append(phases, "wait")
    /\ UNCHANGED <<outside, spawned, project, fs, elements, client, idx, process,
                   signals, output, raised,
                   result, invoked>>

\* _run_process starting the command again after TimeoutExpired.
TimeoutExpiredRespawn ==
    /\ pc = "wait"
    /\ Alive(process)
    /\ pc' = "spawn"
    /\ UNCHANGED <<outside, spawned, phases, project, fs, elements, client, idx,
                   process,
                   signals, output, raised, result, invoked>>

\* _run_process: communicate(timeout) raises TimeoutExpired.
TimeoutExpired ==
    /\ pc = "wait"
    /\ Alive(process)
    /\ pc' = "deal_timeout"
    /\ UNCHANGED <<outside, spawned, phases, project, fs, elements, client, idx,
                   process, signals, output, raised,
                   result, invoked>>

\* _deal_timeout: the log line and process.terminate()
DealTimeoutTerminate ==
    /\ pc = "deal_timeout"
    /\ output' = LoggerCall(elements[idx].log, output, <<"Timeout expired">>, <<>>)
    /\ signals' = Append(signals, [sig |-> "SIGTERM", alive |-> Alive(process)])
    /\ process' = SendSignal(process, "SIGTERM")
    /\ pc' = "poll"
    /\ UNCHANGED <<outside, spawned, phases, project, fs, elements, client, idx,
                   raised, result, invoked>>

\* _deal_timeout: if process.poll(): log, process.kill()
DealTimeoutPoll ==
    /\ pc = "poll"
    /\ IF PollTruthy(process)
       THEN /\ output' = LoggerCall(elements[idx].log, output,
                                    <<"Process will not terminate, we kill it">>, <<>>)
            /\ signals' = Append(signals, [sig |-> "SIGKILL", alive |-> Alive(process)])
            /\ process' = SendSignal(process, "SIGKILL")
       ELSE UNCHANGED <<output, signals, process>>
    /\ pc' = "communicate"
    /\ UNCHANGED <<outside, spawned, phases, project, fs, elements, client, idx,
                   raised, result, invoked>>

\* _deal_timeout: process.communicate() returns once the child has exited.
DealTimeoutCommunicate ==
    /\ pc = "communicate"
    /\ ~Alive(process)
    /\ pc' = "classify"
    /\ phases' = Append(phases, "wait")
    /\ UNCHANGED <<outside, spawned, project, fs, elements, client, idx, process,
                   signals, output, raised,
                   result, invoked>>

\* _deal_return_code, called by _run_process
DealReturnCode ==
    /\ pc = "classify"
    /\ LET unit == elements[idx]
           message == Message(unit, process)
       IN  IF IsFailure(unit, process.status)
           THEN /\ raised' = "RuntimeError"
                /\ pc' = "failed"
                /\ output' = output
           ELSE IF IsWarning(unit, process.status)
           THEN LET exc == LoggerRaises(unit.log, message, <<>>) IN
                /\ raised' = exc
                /\ output' = LoggerCall(unit.log, output, message, <<>>)
                /\ pc' = IF exc = "None" THEN "postcall" ELSE "failed"
           ELSE /\ raised' = "None"
                /\ pc' = "postcall"
                /\ output' = output
    /\ phases' = Append(phases, "classify")
    /\ UNCHANGED <<outside, spawned, project, fs, elements, client, idx, process,
                   signals, result, invoked>>

\* __call__: the post-hook, and the captured output is returned to compile().
UnitPostcall ==
    /\ pc = "postcall"
    /\ output' = Hook(elements[idx].postcall, project, output)
    /\ result' = <<[out |-> process.out, err |-> process.err]>>
    /\ idx' = idx + 1
    /\ pc' = "compile"
    /\ phases' = Append(phases, "postcall")
    /\ UNCHANGED <<outside, spawned, project, fs, elements, client, process,
                   signals, raised, invoked>>

\* compile(): the for loop is over.
CompileReturns ==
    /\ pc = "compile"
    /\ idx > Len(elements)
    /\ pc' = "done"
    /\ UNCHANGED <<outside, spawned, phases, project, fs, elements, client, idx,
                   process, signals, output, raised,
                   result, invoked>>

UnitSteps ==
    \/ UnitPrecall
    \/ Spawn
    \/ ProcessExits
    \/ ProcessTerminated
    \/ CommunicateInTime
    \/ TimeoutExpired
    \/ DealTimeoutTerminate
    \/ DealTimeoutPoll
    \/ DealTimeoutCommunicate
    \/ DealReturnCode
    \/ UnitPostcall

Next ==
    \/ ProjectCompile
    \/ InvokeCreateBuildDir
    \/ InvokeCreateSymlinks
    \/ UnitSteps
    \/ CompileReturns

Spec == Init /\ [][Next]_vars

----------------------------------------------------------------------------
(* A client that builds a CompilationProcess itself.                       *)

InitPipeline ==
    /\ configs = ClientOptions
    /\ project = ProjectInit(ClientOptions)
    /\ fs \in {{Dir(DocDir), File(project.filepath)} \cup extra :
                  extra \in {{}, {Dir(project.builddir)}}}
    /\ client = [pool |-> "steps", left |-> MaxElements, calls |-> 1,
                 passed |-> <<>>, earlier |-> <<>>]
    /\ pc = "start"
    /\ InitCommon

NextPipeline ==
    \/ ClientAdd
    \/ ClientCompile
    \/ InvokeCreateBuildDir
    \/ UnitSteps
    \/ CompileReturns

SpecPipeline == InitPipeline /\ [][NextPipeline]_vars

\* One unit of any policy is added to a CompilationProcess and run.
InitUnit ==
    /\ configs = ClientOptions
    /\ project = ProjectInit(ClientOptions)
    /\ fs = {Dir(DocDir), File(project.filepath)}
    /\ client = [pool |-> "units", left |-> 1, calls |-> 1,
                 passed |-> <<>>, earlier |-> <<>>]
    /\ pc = "start"
    /\ InitCommon

NextUnit ==
    \/ ClientAdd
    \/ ClientCompile
    \/ UnitSteps
    \/ CompileReturns

SpecUnit == InitUnit /\ [][NextUnit]_vars

\* A client builds a CompilationProcess of fewer than MaxElements steps and
\* calls compile() on it up to MaxCompiles times.
InitRecompile ==
    /\ configs = ClientOptions
    /\ project = ProjectInit(ClientOptions)
    /\ fs = {Dir(DocDir), File(project.filepath)}
    /\ client = [pool |-> "steps", left |-> MaxElements - 1, calls |-> MaxCompiles,
                 passed |-> <<>>, earlier |-> <<>>]
    /\ pc = "start"
    /\ InitCommon

SpecRecompile == InitRecompile /\ [][NextPipeline]_vars

----------------------------------------------------------------------------
(* The auxiliary file name, for every main-document file name.             *)

InitAux ==
    /\ \E name \in FileNames :
          /\ configs = [ClientOptions EXCEPT !.maintex = <<name>>]
          /\ project = ProjectInit(configs)
    /\ fs = {Dir(DocDir), File(project.filepath)}
    /\ client = NoClient
    /\ pc = "aux"
    /\ InitCommon

\* Project.reference_auxiliary_filename is called.
ReferenceAuxiliaryFilename ==
    /\ pc = "aux"
    /\ result' = <<reference_auxiliary_filename(project)>>
    /\ pc' = "done"
    /\ UNCHANGED <<outside, spawned, phases, project, fs, elements, client, idx,
                   process, signals, output, raised,
                   invoked>>

NextAux == ReferenceAuxiliaryFilename

SpecAux == InitAux /\ [][NextAux]_vars

----------------------------------------------------------------------------
(* Constructions of CompilationUnit and the return_codes mappings.         *)

\* The mappings a client holds and may pass as return_codes.
CallerDicts == {"d1", "d2"}

\* __init__ merging the mapping passed into the default one.
init_return_codes_into_default(heap, ref) ==
    [heap EXCEPT !["default"] =
        [k \in OkWarn |-> IF k \in DOMAIN heap[ref] THEN heap[ref][k] ELSE {}]]

\* CompilationUnit.__init__, the for loop over ("ok", "warn"): the mappings
\* alive after the call in which return_codes is the mapping ref.  A missing
\* key is added to that very mapping.
init_return_codes(heap, ref) ==
    [heap EXCEPT ![ref] =
        [k \in OkWarn |-> IF k \in DOMAIN heap[ref] THEN heap[ref][k] ELSE {}]]

\* The unit a construction with the mapping ref gives.
ConstructedUnit(heap, ref) ==
    CompilationUnit(<<"cmd">>, <<"f">>, <<>>, DocDir, "nullfn", "nullfn", "NullLogger",
                    heap[ref])

\* A client holds two mappings of any content and constructs units.  It
\* remembers the mapping of each construction, and what it held when passed.
InitConstruct ==
    /\ \E m \in [CallerDicts -> ReturnCodeMappings] :
          dicts = [r \in {"default"} \cup CallerDicts |->
                      IF r = "default" THEN DefaultReturnCodes ELSE m[r]]
    /\ configs = ClientOptions
    /\ project = ProjectInit(ClientOptions)
    /\ fs = {Dir(DocDir), File(project.filepath)}
    /\ client = [pool |-> "policies", left |-> MaxUnits, calls |-> 0,
                 passed |-> <<>>, earlier |-> <<>>]
    /\ pc = "construct_units"
    /\ spawned = <<>>
    /\ phases = <<>>
    /\ argv = <<>>
    /\ rcfile = NoFile
    /\ elements = <<>>
    /\ idx = 1
    /\ process = NoProcess
    /\ signals = <<>>
    /\ output = <<>>
    /\ raised = "None"
    /\ result = <<>>
    /\ invoked = <<>>

\* CompilationUnit(command, filename, ...) with the mapping ref as return_codes.
Construct(ref) ==
    /\ pc = "construct_units"
    /\ client.left > 0
    /\ dicts' = init_return_codes(dicts, ref)
    /\ result' = <<ConstructedUnit(dicts, ref)>>
    /\ client' = [client EXCEPT !.left = @ - 1,
                                !.passed = Append(@, [ref |-> ref, given |-> dicts[ref]])]
    /\ UNCHANGED <<argv, rcfile, configs, spawned, phases, project, fs, elements,
                   pc, idx,
                   process, signals, output, raised, invoked>>

\* A unit is constructed without return_codes argument.
ConstructDefault == Construct("default")

\* A unit is constructed with one of the client's mappings as return_codes.
ConstructWithPolicy == \E ref \in CallerDicts : Construct(ref)

NextConstruct ==
    \/ ConstructDefault
    \/ ConstructWithPolicy

SpecConstruct == InitConstruct /\ [][NextConstruct]_vars

----------------------------------------------------------------------------
(* main(): the command line and the settings file.                         *)

MaxRcLines == 2      \* most lines in the settings file

\* A line of the settings file is a sequence of tokens: a word, " ", "=", or
\* the characters of a file name.
MaintexLine == <<"maintex", " ", "=", " ">> \o PaperTex
RcLines ==
    { MaintexLine,
      <<"builddir", " ", "=", " ", ".">>,
      <<"logger", "=", "NullLogger">>,
      <<"logger">>,
      <<"title", "=", "a", "=", "b">> }

\* The settings files: none, or up to MaxRcLines lines.
RcFiles == {NoFile} \cup {[exists |-> TRUE, lines |-> ls] : ls \in SeqsUpTo(RcLines, MaxRcLines)}

\* sys.argv: the program name, then the main document if one is given.
ProgramName == <<"c", "o", "m", "p", "i", "l", "e", "t", "e", "x">>
Argvs == {<<ProgramName>>, <<ProgramName, PaperTex>>}

\* line.split(sep)
RECURSIVE Split(_, _)
Split(line, sep) ==
    IF \A k \in 1..Len(line) : line[k] # sep THEN <<line>>
    ELSE LET k == CHOOSE i \in 1..Len(line) :
                      line[i] = sep /\ \A j \in 1..(i - 1) : line[j] # sep
         IN  <<SubSeq(line, 1, k - 1)>> \o Split(SubSeq(line, k + 1, Len(line)), sep)

\* text.strip()
RECURSIVE Strip(_)
Strip(text) ==
    IF text = <<>> THEN text
    ELSE IF Head(text) = " " THEN Strip(Tail(text))
    ELSE IF text[Len(text)] = " " THEN Strip(SubSeq(text, 1, Len(text) - 1))
    ELSE text

ConfigKeys == {"latex", "bibtex", "maintex", "logger", "builddir"}

\* The dictionary main() starts from.  The field none holds the keys whose
\* value is None.
DefaultConfigs ==
    [latex |-> "PdfLatexCompiler", bibtex |-> <<"bibtex">>, maintex |-> <<>>,
     logger |-> "Logger", builddir |-> <<TexBuild>>, keys |-> ConfigKeys,
     none |-> {"maintex"}]

\* line.split('=')[0].strip() in configs.keys()
KeyInConfigs(line) ==
    LET key == Strip(Split(line, "=")[1]) IN Len(key) = 1 /\ key[1] \in ConfigKeys

\* configs[key] = val.  A path value is held as its sequence of names (no
\* line drawn has a "/"), a class name as its word.
SetConfig(c, key, val) ==
    IF key = "maintex" THEN [c EXCEPT !.maintex = <<val>>, !.none = @ \ {"maintex"}]
    ELSE IF key = "builddir" THEN [c EXCEPT !.builddir = <<val>>]
    ELSE IF key = "bibtex" THEN [c EXCEPT !.bibtex = val]
    ELSE IF key = "logger" THEN [c EXCEPT !.logger = val[1]]
    ELSE [c EXCEPT !.latex = val[1]]

\* The for loop of main() over the filtered lines: key, val = tuple(...) raises
\* ValueError unless the line has exactly one "=".
RECURSIVE ReadLines(_, _)
ReadLines(c, lines) ==
    IF lines = <<>> THEN [configs |-> c, raised |-> "None"]
    ELSE LET parts == Split(Head(lines), "=") IN
         IF Len(parts) # 2 THEN [configs |-> c, raised |-> "ValueError"]
         ELSE ReadLines(SetConfig(c, Strip(parts[1])[1], Strip(parts[2])), Tail(lines))

\* main(), up to the construction of the Project: the option mapping and the
\* exception raised.  Whatever the try block raises becomes RuntimeError.
main(args, rc) ==
    IF Len(args) < 2
    THEN IF ~rc.exists THEN [configs |-> DefaultConfigs, raised |-> "RuntimeError"]
         ELSE LET read == ReadLines(DefaultConfigs, SelectSeq(rc.lines, KeyInConfigs)) IN
              [configs |-> read.configs,
               raised |-> IF read.raised = "None" THEN "None" ELSE "RuntimeError"]
    ELSE [configs |-> SetConfig(DefaultConfigs, "maintex", args[2]), raised |-> "None"]

\* Project.__init__: the exception raised.  os.path.abspath(None) raises
\* TypeError.
ProjectInitRaises(texoptions) ==
    IF "maintex" \in texoptions.none THEN "TypeError" ELSE "None"

\* The Project variable before Project.__init__ has run.
NoProject ==
    [latex |-> "", bibtex |-> <<>>, filepath |-> <<>>, builddir |-> <<>>,
     texargs |-> <<>>, log |-> ""]

InitMain ==
    /\ argv \in Argvs
    /\ rcfile \in RcFiles
    /\ configs = DefaultConfigs
    /\ project = NoProject
    /\ \E bibs \in SUBSET {BibName(1)} :
          fs = {Dir(DocDir), File(Join(DocDir, PaperTex))}
                  \cup {File(Join(DocDir, b)) : b \in bibs}
    /\ client = NoClient
    /\ pc = "main"
    /\ dicts = LoadedDicts
    /\ spawned = <<>>
    /\ phases = <<>>
    /\ elements = <<>>
    /\ idx = 1
    /\ process = NoProcess
    /\ signals = <<>>
    /\ output = <<>>
    /\ raised = "None"
    /\ result = <<>>
    /\ invoked = <<>>

\* main() reads the command line or the settings file.
Main ==
    /\ pc = "main"
    /\ LET r == main(argv, rcfile) IN
       /\ configs' = r.configs
       /\ raised' = r.raised
       /\ pc' = IF r.raised = "None" THEN "construct" ELSE "failed"
    /\ UNCHANGED <<argv, rcfile, dicts, spawned, phases, project, fs, elements,
                   client, idx,
                   process, signals, output, result, invoked>>

\* main() calls Project(texoptions=configs).
ProjectConstruct ==
    /\ pc = "construct"
    /\ raised' = ProjectInitRaises(configs)
    /\ IF ProjectInitRaises(configs) = "None"
       THEN project' = ProjectInit(configs) /\ pc' = "start"
       ELSE project' = project /\ pc' = "failed"
    /\ UNCHANGED <<outside, spawned, phases, fs, elements, client, idx, process,
                   signals,
                   output, result, invoked>>

NextMain ==
    \/ Main
    \/ ProjectConstruct
    \/ Next

SpecMain == InitMain /\ [][NextMain]_vars

----------------------------------------------------------------------------
(* Properties of the pipeline (SpecPipeline).                              *)

\* The elements invoked so far by the running compile(), in invocation order.
InvokedElements == [j \in 1..Len(invoked) |-> elements[invoked[j]]]

\* The callables the client passed to add(), in the order of the calls.
AcceptedInOrder == SelectSeq(client.passed, Callable)

C1_State ==
    /\ Len(invoked) <= Len(AcceptedInOrder)
    /\ InvokedElements = SubSeq(AcceptedInOrder, 1, Len(invoked))
    /\ pc = "done" => Len(invoked) = Len(AcceptedInOrder) /\ raised = "None"
    /\ pc = "failed" => raised # "None" /\ Len(invoked) = idx

\* C1: compile() invokes the steps in the order they were added; when a step
\* fails the failure leaves compile() at once and no later step is invoked:
\* the steps invoked are always the first ones added, in that order, all of
\* them once compile() returns, and after a failure of step idx they are
\* the steps 1..idx for ever.
C1_InOrderStopsAtFailure ==
    /\ []C1_State
    /\ [][pc = "failed" => pc' = "failed" /\ invoked' = invoked]_vars

\* C1 witness: the second of three steps failed and the third was not invoked.
C1_Witness ==
    /\ pc = "failed"
    /\ Len(elements) = 3
    /\ invoked = <<1, 2>>
    /\ elements[1] # elements[2]

\* C7: add() of a value that is not callable raises TypeError in the add call
\* itself (compile() not yet called) and leaves the element list as it was, so
\* that the list holds exactly the callables passed and compile() invokes
\* nothing else.
C7_AddRejectsNotCallable ==
    /\ (pc = "start" /\ client.passed # <<>>) =>
           (raised = "TypeError" <=> ~Callable(client.passed[Len(client.passed)]))
    /\ elements = SelectSeq(client.passed, Callable)
    /\ \A j \in 1..Len(invoked) : Callable(elements[invoked[j]])

\* C7 witness: a rejected value was passed between two accepted steps and
\* compile() has run both.
C7_Witness ==
    /\ pc = "done"
    /\ Len(client.passed) = 3
    /\ client.passed[2] = NotCallable
    /\ invoked = <<1, 2>>

\* C8: the build-directory step invoked right after itself does not fail,
\* creates nothing and logs nothing.
C8_CreateBuildDirIdempotent ==
    [][(/\ AtElement
        /\ idx > 1
        /\ elements[idx] = Function("create_build_dir")
        /\ elements[idx - 1] = Function("create_build_dir"))
       => (/\ fs' = fs
           /\ output' = output
           /\ raised' = "None"
           /\ pc' = "compile"
           /\ idx' = idx + 1)]_vars

\* C8 witness: the step ran twice in a row; the first run created the
\* directory and logged it, the second did neither.
C8_Witness ==
    /\ Len(invoked) >= 2
    /\ elements[1] = Function("create_build_dir")
    /\ elements[2] = Function("create_build_dir")
    /\ Len(output) = 1
    /\ Exists(fs, project.builddir)

----------------------------------------------------------------------------
(* Properties of the plan and of a build (Spec).                           *)

MainUnit == main_file_compilation(project)
BibUnit == reference_compilation_units(project)[2]

\* How many of the positions in s hold element e.
Count(s, e) == Cardinality({j \in 1..Len(s) : s[j] = e})

Generated == pc # "start"

\* The document directory holds at least one *.bib file.
BibPresent == bibfiles(project, fs) # {}

\* C4: with a bibliography file and a build directory that is not the
\* document directory the plan is create_build_dir, compile, symlinks,
\* bibliography, compile, compile; a build in which every step succeeds has
\* invoked the compilation 3 times and the bibliography processor once.
C4_PlanWithBibliography ==
    (Generated /\ BibPresent /\ project.builddir # path(project)) =>
        /\ elements = <<Function("create_build_dir"), MainUnit,
                        Function("create_bibfile_symlinks"), BibUnit,
                        MainUnit, MainUnit>>
        /\ pc = "done" => /\ Count(InvokedElements, MainUnit) = 3
                          /\ Count(InvokedElements, BibUnit) = 1
                          /\ invoked = <<1, 2, 3, 4, 5, 6>>

\* C4 witness: such a build has succeeded.
C4_Witness ==
    /\ pc = "done"
    /\ BibPresent
    /\ project.builddir # path(project)
    /\ Len(invoked) = 6

\* C5: without a bibliography file the plan holds one compilation, no symlink
\* step and no bibliography unit: a build invokes the compilation at most
\* once, exactly once when it ends, and the bibliography processor never.
C5_PlanWithoutBibliography ==
    (Generated /\ ~BibPresent) =>
        /\ Count(elements, MainUnit) = 1
        /\ Count(elements, Function("create_bibfile_symlinks")) = 0
        /\ Count(elements, BibUnit) = 0
        /\ Count(InvokedElements, MainUnit) <= 1
        /\ Count(InvokedElements, BibUnit) = 0
        /\ pc \in {"done", "failed"} => Count(InvokedElements, MainUnit) = 1

\* C5 witness: a build without bibliography has ended after its one compilation.
C5_Witness ==
    /\ pc = "done"
    /\ ~BibPresent
    /\ Count(InvokedElements, MainUnit) = 1

\* The entry of the link the symlink step makes for a bibliography file.
TargetOf(bibfile) == Join(project.builddir, BaseName(bibfile))

AtSymlinks == AtElement /\ elements[idx] = Function("create_bibfile_symlinks")

----------------------------------------------------------------------------
(* Properties of one CompilationUnit (SpecUnit).                           *)

\* The invocation of the unit at idx has ended: its output was returned to
\* compile(), or an exception left it.
UnitReturned == pc = "compile" /\ idx > 1 /\ elements[idx - 1].kind = "CompilationUnit"
UnitFailed == pc = "failed" /\ elements[idx].kind = "CompilationUnit"

Captured == <<[out |-> process.out, err |-> process.err]>>

\* C2: the invocation of a unit whose process exited with status c fails with
\* RuntimeError exactly when c is in neither list of the policy, and returns
\* the captured (stdout, stderr) in every other case.
C2_FailsIffInNeitherList ==
    /\ UnitFailed =>
          /\ raised = "RuntimeError"
          /\ IsFailure(elements[idx], process.status)
    /\ UnitReturned =>
          /\ ~IsFailure(elements[idx - 1], process.status)
          /\ result = Captured

\* C3: after a timeout process.kill() is called only after
\* process.terminate(), and only on a child that is still alive then.
C3_KillOnlyIfStillAlive ==
    \A j \in 1..Len(signals) :
        signals[j].sig = "SIGKILL" =>
            /\ \E k \in 1..(j - 1) : signals[k].sig = "SIGTERM"
            /\ signals[j].alive

----------------------------------------------------------------------------
(* The bibliography run of a build (Spec).                                 *)

\* The bibliography unit has just been classified by _deal_return_code.
BibClassified ==
    /\ pc \in {"postcall", "failed"}
    /\ elements[idx] = BibUnit

Logged(line) == \E j \in 1..Len(output) : output[j] = line \o <<"\n">>

\* C6: when the bibliography processor exits with 2 the message is logged and
\* the build goes on to the two compilations that follow; when it exits with
\* 1 the build is aborted there.
C6_BibliographyWarning ==
    /\ (BibClassified /\ process.status = 2) =>
          /\ pc = "postcall"
          /\ project.log = "Logger" => Logged(Message(BibUnit, process))
    /\ (BibClassified /\ process.status = 1) =>
          pc = "failed" /\ raised = "RuntimeError"
    /\ (pc = "failed" /\ elements[idx] = BibUnit) =>
          Count(InvokedElements, MainUnit) = 1
    /\ (pc = "done" /\ BibPresent) =>
          Count(InvokedElements, MainUnit) = 3

----------------------------------------------------------------------------
(* The auxiliary file name (SpecAux).                                      *)

\* The position of the last "." of a name, 0 if it has none.
LastDot(name) ==
    IF \E k \in 1..Len(name) : name[k] = "."
    THEN CHOOSE k \in 1..Len(name) :
             /\ name[k] = "."
             /\ \A m \in (k + 1)..Len(name) : name[m] # "."
    ELSE 0

\* The name with what follows its last "." replaced by aux.
WithExtensionAux(name) == SubSeq(name, 1, LastDot(name)) \o <<"a", "u", "x">>

\* C10: the auxiliary file name is the main file name with its extension,
\* of whatever length, replaced by aux.
C10_AuxReplacesExtension ==
    (pc = "done" /\ LastDot(main_texfile(project)) > 0) =>
        result = <<WithExtensionAux(main_texfile(project))>>

----------------------------------------------------------------------------
(* The timeout of a CompilationUnit (SpecUnit).                            *)

\* communicate(timeout) raised TimeoutExpired for the process of this
\* invocation: _deal_timeout has called process.terminate().
TimedOut == signals # <<>>

\* C11: after a timeout the invocation fails exactly when the exit status
\* observed after the terminate/kill handling is in neither list of the
\* policy, and returns the captured output when the status is in ok or warn.
C11_TimeoutIsNotAFailure ==
    /\ (TimedOut /\ UnitFailed) => IsFailure(elements[idx], process.status)
    /\ (TimedOut /\ UnitReturned) =>
          /\ ~IsFailure(elements[idx - 1], process.status)
          /\ result = Captured

----------------------------------------------------------------------------
(* No main document (SpecMain).                                            *)

\* Neither the command line nor the settings file gives a main document: no
\* argument, and no settings file or none with a maintex line.
NoMainDocument ==
    /\ Len(argv) < 2
    /\ \/ ~rcfile.exists
       \/ \A k \in 1..Len(rcfile.lines) : Head(rcfile.lines[k]) # "maintex"

\* C12: without a main document the program fails with the configuration
\* error (RuntimeError "no tex file provided"); no plan is generated and no
\* step is invoked.
C12_NoMainDocumentIsConfigurationError ==
    NoMainDocument =>
        /\ pc \in {"main", "construct", "failed"}
        /\ elements = <<>> /\ invoked = <<>> /\ spawned = <<>>
        /\ pc = "failed" => raised = "RuntimeError"

----------------------------------------------------------------------------
(* Termination of an invocation after a timeout (SpecUnitFair).            *)

\* The steps the interpreter takes by itself: a call that can return does
\* return.  Nothing makes a child exit: it may run for ever and may ignore
\* SIGTERM.
DriverSteps ==
    \/ ClientCompile
    \/ UnitPrecall
    \/ Spawn
    \/ CommunicateInTime
    \/ TimeoutExpired
    \/ DealTimeoutTerminate
    \/ DealTimeoutPoll
    \/ DealTimeoutCommunicate
    \/ DealReturnCode
    \/ UnitPostcall
    \/ CompileReturns

SpecUnitFair == SpecUnit /\ WF_vars(DriverSteps)

\* C13: once the timeout has expired the invocation ends: compile() returns
\* or raises, whatever the child does with SIGTERM.
C13_TimeoutAlwaysFinishes == (pc = "deal_timeout") ~> (pc \in {"done", "failed"})

----------------------------------------------------------------------------
(* Overlapping lists of a policy (SpecUnit).                               *)

\* C14: whatever the policy, its lists overlapping or not, a status in ok
\* lets the invocation go on with nothing logged by the classification, and
\* the classification logs only for a status that is in warn and not in ok.
C14_OkTakesPrecedence ==
    [][pc = "classify" =>
          LET codes == elements[idx].return_codes IN
          /\ process.status \in codes["ok"] => pc' = "postcall" /\ output' = output
          /\ output' # output =>
                process.status \in codes["warn"] /\ process.status \notin codes["ok"]]_vars

----------------------------------------------------------------------------
(* The phases of an invocation (SpecUnit).                                 *)

PhaseOrder == <<"precall", "spawn", "wait", "classify", "postcall">>

\* The unit whose invocation has ended.
EndedUnit == IF UnitFailed THEN elements[idx] ELSE elements[idx - 1]

\* C15: an invocation goes through pre-hook, spawn, wait, classification and
\* post-hook in this order; once the classification is made, the post-hook
\* has run when the invocation ends exactly when the status is in ok or warn.
C15_PhasesInOrder ==
    /\ phases = SubSeq(PhaseOrder, 1, Len(phases))
    /\ ((UnitReturned \/ UnitFailed) /\ Len(phases) >= 4) =>
          (Len(phases) = 5 <=> ~IsFailure(EndedUnit, process.status))

----------------------------------------------------------------------------
(* The build directory step of the plan (Spec).                            *)

\* The option mapping given to Project has a builddir entry.
BuildDirConfigured == "builddir" \in configs.keys

\* C16: the plan holds the create_build_dir step, as its first step, exactly
\* when the option mapping configures a build directory; without one the
\* build directory is the document directory and the plan starts with the
\* compilation of the main document.
C16_BuildDirStepIffConfigured ==
    Generated =>
        /\ elements[1] = Function("create_build_dir") <=> BuildDirConfigured
        /\ Count(elements, Function("create_build_dir")) =
              (IF BuildDirConfigured THEN 1 ELSE 0)
        /\ ~BuildDirConfigured =>
              /\ project.builddir = path(project)
              /\ elements[1] = MainUnit

----------------------------------------------------------------------------
(* The order of a build with bibliography (Spec).                          *)

\* A build with bibliography invokes the given steps in the given order, after
\* create_build_dir if the plan has it; it is done only once all of them
\* were invoked and none raised; it fails at the step invoked last.
VisitsInOrder(steps) ==
    (Generated /\ BibPresent) =>
        LET order == IF elements[1] = Function("create_build_dir")
                     THEN <<Function("create_build_dir")>> \o steps
                     ELSE steps
        IN  /\ Len(invoked) <= Len(order)
            /\ InvokedElements = SubSeq(order, 1, Len(invoked))
            /\ pc = "done" => Len(invoked) = Len(order) /\ raised = "None"
            /\ pc = "failed" => raised # "None" /\ invoked[Len(invoked)] = idx

\* Nothing is invoked once a step has failed.
FailedIsFinal == pc = "failed" => pc' = "failed" /\ invoked' = invoked

----------------------------------------------------------------------------
(* No retry (Spec).                                                        *)

NoRepeat(s) == \A a, b \in 1..Len(s) : s[a] = s[b] => a = b

\* The invocation at position j has reached Popen.
HasSpawned(j) ==
    elements[j].kind = "CompilationUnit" /\ ~(pc = "spawn" /\ j = idx)

\* C18: within one compile() no position is invoked twice, every invocation
\* of a unit has spawned one process, whatever became of it, and a build
\* spawns at most 4 processes: at most 3 compilations and 1 bibliography run.
C18_NoRetry ==
    /\ NoRepeat(invoked)
    /\ spawned = SelectSeq(invoked, HasSpawned)
    /\ Len(spawned) <= 4
    /\ Cardinality({j \in 1..Len(spawned) : elements[spawned[j]] = MainUnit}) <= 3
    /\ Cardinality({j \in 1..Len(spawned) : elements[spawned[j]] = BibUnit}) <= 1

\* C18 witness: the fourth process of a build has timed out and failed the
\* build; it was not started again.
C18_Witness ==
    /\ pc = "failed"
    /\ TimedOut
    /\ spawned = <<2, 4, 5, 6>>

----------------------------------------------------------------------------
(* compile() called again (SpecRecompile).                                 *)

\* One of two sequences of positions begins with the other.
SameStart(a, b) ==
    LET n == IF Len(a) < Len(b) THEN Len(a) ELSE Len(b) IN
    SubSeq(a, 1, n) = SubSeq(b, 1, n)

\* What a compile() call has invoked so far: the first steps of the list, in
\* the order of the list, all of them when the call returns; and the same
\* steps, as far as both went, as every earlier call.
FromFirstStep ==
    /\ invoked = [j \in 1..Len(invoked) |-> j]
    /\ Len(invoked) <= Len(elements)
    /\ pc = "done" => Len(invoked) = Len(elements)
    /\ \A k \in 1..Len(client.earlier) : SameStart(client.earlier[k], invoked)

\* C19: no step of compile(), returning or raising, changes the element
\* list; a later compile() on the same CompilationProcess begins at the
\* first element and invokes the same elements in the same order.
C19_CompileKeepsSteps ==
    /\ [][pc # "start" => elements' = elements]_vars
    /\ [][(pc \in {"done", "failed"} /\ pc' = "compile") => (idx' = 1)]_vars
    /\ []FromFirstStep

\* C19 witness: the first compile() was aborted by its second step, the second
\* compile() on the same list has invoked both steps and returned.
C19_Witness ==
    /\ client.earlier = << <<1, 2>> >>
    /\ Len(elements) = 2
    /\ pc = "done"
    /\ invoked = <<1, 2>>
    /\ fs # {Dir(DocDir), File(project.filepath)}

----------------------------------------------------------------------------
(* The shared default policy (SpecConstruct).                              *)

\* The codes a child can end with: its own exit status, or the signal that
\* ended it.
ExitCodes == (0..MaxCode) \cup {-15, -9}

\* A unit whose return_codes is the mapping ref, as the mapping is now.
UnitOf(ref) == ConstructedUnit(dicts, ref)

\* C20: whatever units have been constructed, the default mapping is still
\* ok = [0], warn = []: a unit constructed without return_codes takes 0 as ok
\* and fails on every other code; a construction alters no mapping but the
\* one passed to it, and to that it only adds the missing keys.
C20_DefaultPolicyNeverAltered ==
    /\ [](dicts["default"] = DefaultReturnCodes)
    /\ [](\A j \in 1..Len(client.passed) :
             client.passed[j].ref = "default" =>
                 \A c \in ExitCodes :
                     /\ IsFailure(UnitOf("default"), c) <=> c # 0
                     /\ ~IsWarning(UnitOf("default"), c))
    /\ [][\A r \in DOMAIN dicts :
             dicts'[r] # dicts[r] =>
                 /\ r \in CallerDicts
                 /\ r = client'.passed[Len(client'.passed)].ref
                 /\ \A k \in DOMAIN dicts[r] : dicts'[r][k] = dicts[r][k]
                 /\ \A k \in OkWarn \ DOMAIN dicts[r] : dicts'[r][k] = {}]_vars

\* C20 witness: a unit was constructed with a mapping that had no ok key,
\* which now has one; then a unit was constructed without return_codes.
C20_Witness ==
    /\ Len(client.passed) = 2
    /\ client.passed[1].ref = "d1"
    /\ DOMAIN client.passed[1].given = {"warn"}
    /\ 0 \in client.passed[1].given["warn"]
    /\ dicts["d1"]["ok"] = {}
    /\ client.passed[2].ref = "default"
    /\ result = <<UnitOf("default")>>

====
